---- MODULE Spec2Model ----
(***************************************************************************)
(* Task scheduling and consistency engine of smart-task-management:        *)
(* TaskService (conflicts, daily hour limit, recurrence, dependencies,     *)
(* subtasks) and ReminderService (quarter sweep), over a task collection.  *)
(*                                                                         *)
(* Time is in milliseconds since 2025-01-01T00:00:00Z (a Wednesday); the   *)
(* server's local time zone is taken to be UTC, so that setHours(0,0,0,0)  *)
(* is the UTC midnight.                                                    *)
(***************************************************************************)
EXTENDS Integers, Sequences, FiniteSets, TLC

\* ---------------------------------------------------------------- bounds
MaxTasks == 3          \* ids 1..MaxTasks are handed out by createTask
MaxNow == 4            \* the clock stops after MaxNow ticks of TickMs
MaxGraphTasks == 2     \* tasks created under Spec and SpecDeps
MaxRecurTasks == 1     \* tasks created under SpecRecur
MaxRollDays == 3       \* a series is completed while it starts before this day
MaxLimitTasks == 2     \* tasks created under SpecLimit
MaxRemindTasks == 2    \* tasks created under SpecRemind
MaxProbeTime == 3      \* detectConflict is applied to times 0..MaxProbeTime
MaxSlotTasks == 2      \* tasks created under SpecSlots
MaxWorkTasks == 3      \* duration tasks calculateWorkload is applied to
MaxRaceTasks == 2      \* tasks created under SpecRace
MaxRollTasks == 2      \* tasks created under SpecRoll
MaxOccurDay == 70      \* the day index on which the series of SpecOccur end

\* ------------------------------------------------------------- constants
HourMs == 3600000
DayMs == 24 * HourMs
TickMs == 6 * HourMs
BaseYear == 2025
BaseWeekday == 3

NoDate == -1           \* an undefined Date
NoId == 0              \* an undefined / null task id
Absent == -1           \* a request field that is not given (undefined)

REMINDER == "reminder"
DURATION == "duration"
PENDING == "pending"
IN_PROGRESS == "in-progress"
COMPLETED == "completed"
DAILY == "daily"
WEEKLY == "weekly"
MONTHLY == "monthly"
YEARLY == "yearly"

Users == {"u1", "u2"}
Ids == 1..MaxTasks

Max(a, b) == IF a >= b THEN a ELSE b
Min(a, b) == IF a <= b THEN a ELSE b
Range(s) == {s[i] : i \in DOMAIN s}

NoPattern ==
  [frequency |-> "none", interval |-> 1, endDate |-> NoDate,
   occurrences |-> Absent, daysOfWeek |-> {}, dayOfMonth |-> 0]

\* ------------------------------------------------------- conflict detector
\* detectConflict whose reminder-against-duration case leaves out the start
detectConflictAfterStart(task1, task2) ==
  LET start1 == task1.startDateTime
      end1 == IF task1.deadline # NoDate THEN task1.deadline ELSE start1
      start2 == task2.startDateTime
      end2 == IF task2.deadline # NoDate THEN task2.deadline ELSE start2
  IN IF task1.type = REMINDER /\ task2.type = REMINDER THEN start1 = start2
     ELSE IF task1.type = REMINDER /\ task2.type = DURATION
       THEN start1 > start2 /\ start1 <= end2
     ELSE IF task1.type = DURATION /\ task2.type = REMINDER
       THEN start2 >= start1 /\ start2 <= end1
     ELSE IF task1.type = DURATION /\ task2.type = DURATION
       THEN start1 < end2 /\ end1 > start2
     ELSE FALSE

\* detectConflict whose duration-against-duration case admits equal endpoints
detectConflictClosed(task1, task2) ==
  LET start1 == task1.startDateTime
      end1 == IF task1.deadline # NoDate THEN task1.deadline ELSE start1
      start2 == task2.startDateTime
      end2 == IF task2.deadline # NoDate THEN task2.deadline ELSE start2
  IN IF task1.type = REMINDER /\ task2.type = REMINDER THEN start1 = start2
     ELSE IF task1.type = REMINDER /\ task2.type = DURATION
       THEN start1 >= start2 /\ start1 <= end2
     ELSE IF task1.type = DURATION /\ task2.type = REMINDER
       THEN start2 >= start1 /\ start2 <= end1
     ELSE IF task1.type = DURATION /\ task2.type = DURATION
       THEN start1 <= end2 /\ end1 >= start2
     ELSE FALSE

\* two tasks of one user collide on the calendar
detectConflict(task1, task2) ==
  LET start1 == task1.startDateTime
      end1 == IF task1.deadline # NoDate THEN task1.deadline ELSE start1
      start2 == task2.startDateTime
      end2 == IF task2.deadline # NoDate THEN task2.deadline ELSE start2
  IN IF task1.type = REMINDER /\ task2.type = REMINDER THEN start1 = start2
     ELSE IF task1.type = REMINDER /\ task2.type = DURATION
       THEN start1 >= start2 /\ start1 <= end2
     ELSE IF task1.type = DURATION /\ task2.type = REMINDER
       THEN start2 >= start1 /\ start2 <= end1
     ELSE IF task1.type = DURATION /\ task2.type = DURATION
       THEN start1 < end2 /\ end1 > start2
     ELSE FALSE

\* ActiveTasks that keeps the completed duration tasks
ActiveTasksAnyStatus(T, userId, excludeTaskId) ==
  {i \in DOMAIN T : T[i].userId = userId /\ i # excludeTaskId}

\* The tasks checkConflicts compares the candidate with.
ActiveTasks(T, userId, excludeTaskId) ==
  {i \in DOMAIN T :
     /\ T[i].userId = userId
     /\ i # excludeTaskId
     /\ \/ T[i].type = REMINDER
        \/ T[i].type = DURATION /\ T[i].status # COMPLETED}

checkConflicts(T, userId, startDateTime, deadline, type, excludeTaskId) ==
  LET cand == [startDateTime |-> startDateTime, deadline |-> deadline,
               type |-> type]
      conflictingTaskIds ==
        {i \in ActiveTasks(T, userId, excludeTaskId) : detectConflict(cand, T[i])}
  IN [hasConflict |-> conflictingTaskIds # {},
      conflictsWith |-> conflictingTaskIds,
      conflicts |-> IF conflictingTaskIds # {}
                    THEN << [conflictsWith |-> conflictingTaskIds,
                             severity |-> "soft"] >>
                    ELSE <<>>]

\* ------------------------------------------------------ free time slots
\* the orders in which find(query).sort({startDateTime: 1}) can return ids
SortedOrders(T, ids) ==
  {order \in [1..Cardinality(ids) -> ids] :
     /\ \A k, l \in DOMAIN order : k # l => order[k] # order[l]
     /\ \A k, l \in DOMAIN order :
          k < l => T[order[k]].startDateTime <= T[order[l]].startDateTime}

\* busyBlocks of findFreeTimeSlots, for the tasks in the order given
busyBlocks(T, order) ==
  [k \in DOMAIN order |->
     [start |-> T[order[k]].startDateTime,
      end |-> IF T[order[k]].deadline # NoDate THEN T[order[k]].deadline
              ELSE T[order[k]].startDateTime]]

Suggestion(slotStart, taskDuration) ==
  [startDateTime |-> slotStart, deadline |-> slotStart + taskDuration]

\* the loop over busyBlocks from block k on: the cursor and the suggestions
RECURSIVE gapSweep(_, _, _, _, _)
gapSweep(blocks, k, currentTime, suggestions, taskDuration) ==
  IF k > Len(blocks)
  THEN [currentTime |-> currentTime, suggestions |-> suggestions]
  ELSE IF blocks[k].start - currentTime >= taskDuration
  THEN IF Len(suggestions) + 1 >= 3
       THEN [currentTime |-> currentTime,
             suggestions |-> Append(suggestions,
                                    Suggestion(currentTime, taskDuration))]
       ELSE gapSweep(blocks, k + 1, Max(currentTime, blocks[k].end),
                     Append(suggestions, Suggestion(currentTime, taskDuration)),
                     taskDuration)
  ELSE gapSweep(blocks, k + 1, Max(currentTime, blocks[k].end), suggestions,
                taskDuration)

\* "space after all tasks" and "no gaps found" of findFreeTimeSlots
afterSweep(blocks, swept, taskDuration, searchEnd) ==
  IF /\ Len(swept.suggestions) < 3
     /\ swept.currentTime < searchEnd
     /\ swept.currentTime + taskDuration <= searchEnd
  THEN Append(swept.suggestions, Suggestion(swept.currentTime, taskDuration))
  ELSE IF Len(swept.suggestions) = 0 /\ Len(blocks) > 0
  THEN << Suggestion(blocks[Len(blocks)].end, taskDuration) >>
  ELSE swept.suggestions

searchFrom(blocks, taskDuration, searchStart) ==
  afterSweep(blocks, gapSweep(blocks, 1, searchStart, <<>>, taskDuration),
             taskDuration, searchStart + 7 * DayMs)

findFreeTimeSlots(blocks, taskDuration, originalStart, clock) ==
  searchFrom(blocks, taskDuration, Max(originalStart, clock))

\* ------------------------------------------------------- daily hour limit
DayOf(t) == t \div DayMs

\* addTaskHours: what one task adds to the day with index d
hoursOnThisDay(taskStart, taskEnd, d) ==
  LET dayStart == d * DayMs
      dayEnd == dayStart + DayMs - 1
      effectiveStart == Max(taskStart, dayStart)
      effectiveEnd == Min(taskEnd, dayEnd)
      h == effectiveEnd - effectiveStart
  IN IF d >= DayOf(taskStart) /\ d <= DayOf(taskEnd) /\ h > 0 THEN h ELSE 0

RECURSIVE SumTaskHours(_, _, _)
SumTaskHours(T, ids, d) ==
  IF ids = {} THEN 0
  ELSE LET i == CHOOSE x \in ids : TRUE
           taskEnd == IF T[i].deadline # NoDate THEN T[i].deadline
                      ELSE T[i].startDateTime
       IN hoursOnThisDay(T[i].startDateTime, taskEnd, d)
          + SumTaskHours(T, ids \ {i}, d)

DurationTasks(T, userId, excludeTaskId) ==
  {i \in DOMAIN T :
     T[i].userId = userId /\ T[i].type = DURATION /\ i # excludeTaskId}

dailyHours(T, userId, startDateTime, deadline, excludeTaskId, d) ==
  SumTaskHours(T, DurationTasks(T, userId, excludeTaskId), d)
  + hoursOnThisDay(startDateTime, deadline, d)

LastDay(T, deadline) ==
  LET ends == {deadline} \cup {T[i].deadline : i \in DOMAIN T}
                         \cup {T[i].startDateTime : i \in DOMAIN T}
  IN DayOf(CHOOSE e \in ends : \A f \in ends : f <= e)

checkDailyHourLimit(T, userId, startDateTime, deadline, type, excludeTaskId) ==
  IF type # DURATION \/ deadline = NoDate THEN FALSE
  ELSE \E d \in 0..LastDay(T, deadline) :
         dailyHours(T, userId, startDateTime, deadline, excludeTaskId, d)
           > 24 * HourMs

\* ---------------------------------------------------- calculateWorkload
\* Hours are kept as milliseconds (hours * HourMs); the workload is computed
\* for duration tasks given as [startDateTime, deadline], in the order found.
\* The days returned are in dailyWorkloads, their tasks lists in tasks.

\* the tasks the query of calculateWorkload selects
workloadTasks(spans, startDate, endDate) ==
  {k \in DOMAIN spans :
     spans[k].startDateTime <= endDate /\ spans[k].deadline >= startDate}

\* hoursOnThisDay of every day the task spans, where it is above 0
taskFragments(span) ==
  [d \in {e \in DayOf(span.startDateTime)..DayOf(span.deadline) :
            hoursOnThisDay(span.startDateTime, span.deadline, e) > 0} |->
     hoursOnThisDay(span.startDateTime, span.deadline, d)]

\* dailyMap.get(dateKey).totalHours, 0 for a day without an entry
RECURSIVE dailyTotal(_, _, _)
dailyTotal(spans, ks, d) ==
  IF ks = {} THEN 0
  ELSE LET k == CHOOSE x \in ks : TRUE
       IN hoursOnThisDay(spans[k].startDateTime, spans[k].deadline, d)
          + dailyTotal(spans, ks \ {k}, d)

\* totalHours of a day appended after the range, without the cap
syntheticHoursUncapped(carryOverHours) == carryOverHours

\* totalHours of a day appended after the range
syntheticHours(carryOverHours) == Min(carryOverHours, 24 * HourMs)

\* "If there's still carry-over after the end date, add an extra day"
RECURSIVE extraDays(_, _, _)
extraDays(d, carryOverHours, dailyWorkloads) ==
  IF carryOverHours > 0
  THEN extraDays(d + 1, carryOverHours - syntheticHours(carryOverHours),
                 Append(dailyWorkloads,
                        [date |-> d,
                         totalHours |-> syntheticHours(carryOverHours)]))
  ELSE dailyWorkloads

\* the day's totalHours with the carry-over added, and what it carries over
cappedDay(d, totalHours) ==
  IF totalHours > 24 * HourMs
  THEN [day |-> [date |-> d, totalHours |-> 24 * HourMs],
        carryOverHours |-> totalHours - 24 * HourMs]
  ELSE [day |-> [date |-> d, totalHours |-> totalHours], carryOverHours |-> 0]

\* "Fill in missing dates with zero workload and apply 24-hour cap"
RECURSIVE carryOverPass(_, _, _, _, _, _)
nextDay(spans, ks, d, lastDay, capped, dailyWorkloads) ==
  carryOverPass(spans, ks, d + 1, lastDay, capped.carryOverHours,
                Append(dailyWorkloads, capped.day))

carryOverPass(spans, ks, d, lastDay, carryOverHours, dailyWorkloads) ==
  IF d > lastDay THEN extraDays(d, carryOverHours, dailyWorkloads)
  ELSE nextDay(spans, ks, d, lastDay,
               cappedDay(d, dailyTotal(spans, ks, d) + carryOverHours),
               dailyWorkloads)

\* The tasks lists of the days. An entry is [id, hours]; the hours are whole
\* milliseconds, a proportional share is rounded down to one.

\* a * b \div c, bit by bit of b, so that no product leaves the integer range
RECURSIVE mulDiv(_, _, _, _, _, _)
mulDiv(a, b, c, bit, q, r) ==
  IF bit = 0 THEN q
  ELSE mulDiv(a, b, c, bit \div 2,
              2 * q + (2 * r + ((b \div bit) % 2) * a) \div c,
              (2 * r + ((b \div bit) % 2) * a) % c)

\* dailyMap.get(dateKey).tasks: the tasks from k on with hours on day d
RECURSIVE dailyTasks(_, _, _, _)
dailyTasks(spans, ks, k, d) ==
  IF k > Len(spans) THEN <<>>
  ELSE IF /\ k \in ks
          /\ hoursOnThisDay(spans[k].startDateTime, spans[k].deadline, d) > 0
  THEN << [id |-> k,
           hours |-> hoursOnThisDay(spans[k].startDateTime,
                                    spans[k].deadline, d)] >>
       \o dailyTasks(spans, ks, k + 1, d)
  ELSE dailyTasks(spans, ks, k + 1, d)

\* "Distribute carry-over proportionally across tasks": adjustedTasks when
\* kept is TRUE, the entries pushed to carryOverTasks otherwise
splitTasks(dayTasks, carryOverHours, totalHours, kept) ==
  LET positive(entry) == entry.hours > 0
      carryAmount(entry) ==
        mulDiv(entry.hours, carryOverHours, totalHours, 1073741824, 0, 0)
  IN SelectSeq([i \in DOMAIN dayTasks |->
                  [dayTasks[i] EXCEPT
                     !.hours = IF kept THEN @ - carryAmount(dayTasks[i])
                               ELSE carryAmount(dayTasks[i])]],
               positive)

\* the tasks lists of the days appended after the range
RECURSIVE extraTasks(_, _, _)
extraTasks(carryOverHours, carryOverTasks, days) ==
  IF carryOverHours > 0
  THEN extraTasks(carryOverHours - syntheticHours(carryOverHours),
                  carryOverTasks,
                  Append(days,
                         [i \in DOMAIN carryOverTasks |->
                            [carryOverTasks[i] EXCEPT
                               !.hours = Min(@, syntheticHours(carryOverHours))]]))
  ELSE days

\* the tasks lists of the days of the range, then of the appended days
RECURSIVE tasksPass(_, _, _, _, _, _, _)
tasksPass(spans, ks, d, lastDay, carryOverHours, carryOverTasks, days) ==
  IF d > lastDay THEN extraTasks(carryOverHours, carryOverTasks, days)
  ELSE IF dailyTotal(spans, ks, d) + carryOverHours > 24 * HourMs
  THEN tasksPass(spans, ks, d + 1, lastDay,
                 dailyTotal(spans, ks, d) + carryOverHours - 24 * HourMs,
                 splitTasks(dailyTasks(spans, ks, 1, d) \o carryOverTasks,
                            dailyTotal(spans, ks, d) + carryOverHours
                              - 24 * HourMs,
                            dailyTotal(spans, ks, d) + carryOverHours, FALSE),
                 Append(days,
                        splitTasks(dailyTasks(spans, ks, 1, d) \o carryOverTasks,
                                   dailyTotal(spans, ks, d) + carryOverHours
                                     - 24 * HourMs,
                                   dailyTotal(spans, ks, d) + carryOverHours,
                                   TRUE)))
  ELSE tasksPass(spans, ks, d + 1, lastDay, 0, <<>>,
                 Append(days, dailyTasks(spans, ks, 1, d) \o carryOverTasks))

calculateWorkload(spans, startDate, endDate) ==
  [fragments |-> [k \in workloadTasks(spans, startDate, endDate) |->
                    taskFragments(spans[k])],
   dailyWorkloads |->
     carryOverPass(spans, workloadTasks(spans, startDate, endDate),
                   DayOf(startDate), DayOf(endDate), 0, <<>>),
   tasks |->
     tasksPass(spans, workloadTasks(spans, startDate, endDate),
               DayOf(startDate), DayOf(endDate), 0, <<>>, <<>>)]

\* ------------------------------------------------------ dynamic priority
\* calculateDynamicPriority whose completed tasks keep their score
calculateDynamicPriorityKept(task, clock) ==
  LET untilDeadline == task.deadline - clock
      base == (CASE task.priority = "low" -> 1
                 [] task.priority = "medium" -> 2
                 [] task.priority = "high" -> 3) * 10
      timed == IF task.deadline = NoDate THEN base
               ELSE IF untilDeadline < 0 THEN base + 100
               ELSE IF untilDeadline < 2 * HourMs THEN base + 50
               ELSE IF untilDeadline < 6 * HourMs THEN base + 30
               ELSE IF untilDeadline < 24 * HourMs THEN base + 20
               ELSE IF untilDeadline < 48 * HourMs THEN base + 10
               ELSE IF untilDeadline < 168 * HourMs THEN base + 5
               ELSE base
  IN IF task.status = IN_PROGRESS THEN timed + 15 ELSE timed

\* the score of a task at the clock reading; hoursUntilDeadline is compared
\* as milliseconds
calculateDynamicPriority(task, clock) ==
  LET untilDeadline == task.deadline - clock
      base == (CASE task.priority = "low" -> 1
                 [] task.priority = "medium" -> 2
                 [] task.priority = "high" -> 3) * 10
      timed == IF task.deadline = NoDate THEN base
               ELSE IF untilDeadline < 0 THEN base + 100
               ELSE IF untilDeadline < 2 * HourMs THEN base + 50
               ELSE IF untilDeadline < 6 * HourMs THEN base + 30
               ELSE IF untilDeadline < 24 * HourMs THEN base + 20
               ELSE IF untilDeadline < 48 * HourMs THEN base + 10
               ELSE IF untilDeadline < 168 * HourMs THEN base + 5
               ELSE base
      boosted == IF task.status = IN_PROGRESS THEN timed + 15 ELSE timed
  IN IF task.status = COMPLETED THEN -1000 ELSE boosted

\* ------------------------------------------------------ recurrence engine
IsLeap(y) == (y % 4 = 0 /\ y % 100 # 0) \/ y % 400 = 0
DaysInYear(y) == IF IsLeap(y) THEN 366 ELSE 365
DaysInMonth(y, m) ==
  IF m = 1 THEN (IF IsLeap(y) THEN 29 ELSE 28)
  ELSE IF m \in {3, 5, 8, 10} THEN 30 ELSE 31

RECURSIVE DaysBeforeYear(_)
DaysBeforeYear(y) ==
  IF y <= BaseYear THEN 0 ELSE DaysBeforeYear(y - 1) + DaysInYear(y - 1)

RECURSIVE DaysBeforeMonth(_, _)
DaysBeforeMonth(y, m) ==
  IF m = 0 THEN 0 ELSE DaysBeforeMonth(y, m - 1) + DaysInMonth(y, m - 1)

\* Date(y, m, d) as a day index; m and d may overflow as in JavaScript
ToDayIndex(y, m, d) ==
  LET yy == y + (m \div 12)
      mm == m % 12
  IN DaysBeforeYear(yy) + DaysBeforeMonth(yy, mm) + d - 1

\* the year that holds day index n
YearOfDay(n) ==
  CHOOSE yy \in BaseYear..(BaseYear + (n \div 365)) :
    DaysBeforeYear(yy) <= n /\ n < DaysBeforeYear(yy + 1)

\* the month of year y that holds the day r of the year (from 0)
MonthOfDay(y, r) ==
  CHOOSE mm \in 0..11 :
    DaysBeforeMonth(y, mm) <= r /\ r < DaysBeforeMonth(y, mm + 1)

DateFields(y, m, r) ==
  [year |-> y, month |-> m, date |-> r - DaysBeforeMonth(y, m) + 1]

DateInYear(y, r) == DateFields(y, MonthOfDay(y, r), r)

DateOfYear(n, y) == DateInYear(y, n - DaysBeforeYear(y))

\* getFullYear, getMonth and getDate of the date with day index n
FromDayIndex(n) == DateOfYear(n, YearOfDay(n))

getDay(n) == (BaseWeekday + n) % 7

SetMin(S) == CHOOSE x \in S : \A y \in S : x <= y

\* setMonth(getMonth() + interval), then setDate(dayOfMonth) if one is given
MonthlyFrom(moved, mv, pattern) ==
  IF pattern.dayOfMonth # 0
  THEN ToDayIndex(mv.year, mv.month, pattern.dayOfMonth)
  ELSE moved

MonthlyMoved(moved, pattern) == MonthlyFrom(moved, FromDayIndex(moved), pattern)

MonthlyNext(cur, pattern) ==
  MonthlyMoved(ToDayIndex(cur.year, cur.month + pattern.interval, cur.date),
               pattern)

YearlyNext(cur, pattern) ==
  ToDayIndex(cur.year + pattern.interval, cur.month, cur.date)

\* WeeklyNext that also takes the weekday of the current date
WeeklyNextSameDay(n, currentDay, pattern) ==
  IF pattern.daysOfWeek # {}
  THEN LET later == {day \in pattern.daysOfWeek : day >= currentDay}
       IN IF later # {} THEN n + (SetMin(later) - currentDay)
          ELSE n + (7 - currentDay + SetMin(pattern.daysOfWeek))
                     * pattern.interval
  ELSE n + 7 * pattern.interval

WeeklyNext(n, currentDay, pattern) ==
  IF pattern.daysOfWeek # {}
  THEN LET later == {day \in pattern.daysOfWeek : day > currentDay}
       IN IF later # {} THEN n + (SetMin(later) - currentDay)
          ELSE n + (7 - currentDay + SetMin(pattern.daysOfWeek))
                     * pattern.interval
  ELSE n + 7 * pattern.interval

\* the day index of the next occurrence of an occurrence on day index n
NextOccurrenceDay(n, pattern) ==
  CASE pattern.frequency = DAILY -> n + pattern.interval
    [] pattern.frequency = WEEKLY -> WeeklyNext(n, getDay(n), pattern)
    [] pattern.frequency = MONTHLY -> MonthlyNext(FromDayIndex(n), pattern)
    [] pattern.frequency = YEARLY -> YearlyNext(FromDayIndex(n), pattern)

\* calculateNextOccurrence that lands one day late
calculateNextOccurrenceDayLate(currentDate, pattern) ==
  (NextOccurrenceDay(DayOf(currentDate), pattern) + 1) * DayMs
  + (currentDate % DayMs)

\* calculateNextOccurrence: setDate/setMonth/setFullYear keep the time of day
calculateNextOccurrence(currentDate, pattern) ==
  NextOccurrenceDay(DayOf(currentDate), pattern) * DayMs + (currentDate % DayMs)


\* ------------------------------------------------------------------ state
VARIABLES
  tasks,    \* the tasks collection: task id -> task document
  nextId,   \* the id the next created document gets
  now,      \* the wall clock, in ms
  last,     \* the last request: its inputs, its outcome, the collection before
            \* it, the collection its checks were made against
  seriesLength,  \* task id -> the occurrences its creation request gave
  call,     \* a call of one of the service's functions: arguments and return
  inflight  \* client -> the request of it that a handler is working on

vars == <<tasks, nextId, now, last, seriesLength, call, inflight>>

NoCall == [fn |-> "none", args |-> <<>>, ret |-> <<>>]

\* A request body in which no field is given.
NoData ==
  [type |-> "undefined", startDateTime |-> Absent, deadline |-> Absent,
   status |-> "undefined", reminderEnabled |-> "undefined",
   isRecurring |-> FALSE, recurrencePattern |-> NoPattern,
   hasDependsOn |-> FALSE, dependsOn |-> <<>>, parentTaskId |-> Absent,
   overrideConflicts |-> FALSE]

\* the clients whose requests the server handles at the same time
Clients == {"a", "b"}

\* no request of the client is being handled
Idle ==
  [pc |-> "idle", op |-> "none", userId |-> "none", id |-> NoId,
   data |-> NoData, snapshot |-> <<>>]

Request(op, userId, id, data, result, fired) ==
  [op |-> op, userId |-> userId, id |-> id, data |-> data, result |-> result,
   pre |-> tasks, snapshot |-> tasks, now |-> now, fired |-> fired]

\* ------------------------------------------------------ request validation
\* CreateReminderTaskSchema / CreateDurationTaskSchema
CreateTaskSchema(data, clock) ==
  \/ /\ data.type = REMINDER
     /\ data.startDateTime # Absent
     /\ data.startDateTime > clock
  \/ /\ data.type = DURATION
     /\ data.startDateTime # Absent
     /\ data.startDateTime > clock
     /\ data.deadline # Absent
     /\ data.deadline > data.startDateTime
     /\ data.deadline > clock

UpdateTaskSchema(data) ==
  (data.startDateTime # Absent /\ data.deadline # Absent)
    => data.deadline > data.startDateTime

\* A recurrence has at most one end condition.
RecurrenceEndValid(pattern) ==
  ~(pattern.endDate # NoDate /\ pattern.occurrences # Absent)

\* recurrencePatternSchema validators and the recurrence part of pre('save')
PatternSchemaValid(isRecurring, pattern) ==
  /\ isRecurring <=> pattern # NoPattern
  /\ pattern # NoPattern =>
       /\ pattern.frequency \in {DAILY, WEEKLY, MONTHLY, YEARLY}
       /\ pattern.interval >= 1
       /\ pattern.occurrences = Absent \/ pattern.occurrences >= 1
       /\ pattern.dayOfMonth \in 0..31

\* ------------------------------------------------- dependency / subtask graph
OwnedBy(T, userId) == {i \in DOMAIN T : T[i].userId = userId}

\* the dependency ids that name a task of the user
dependenciesFound(T, userId, dependsOn) == Range(dependsOn) \cap OwnedBy(T, userId)

\* a subtask query that only looks for pending subtasks
incompleteSubtasksPendingOnly(T, userId, taskId) ==
  {i \in OwnedBy(T, userId) :
     T[i].parentTaskId = taskId /\ T[i].status = PENDING}

incompleteSubtasks(T, userId, taskId) ==
  {i \in OwnedBy(T, userId) :
     T[i].parentTaskId = taskId /\ T[i].status # COMPLETED}

incompleteDeps(T, dependsOn) ==
  {i \in DOMAIN T : i \in Range(dependsOn) /\ T[i].status # COMPLETED}

\* The ancestor walk of isSubtaskOf from cur; it does not return once it has
\* taken more steps than there are tasks (it is then inside a cycle).
RECURSIVE ancestorWalk(_, _, _, _, _)
ancestorWalk(T, cur, potentialChildId, userId, fuel) ==
  IF cur \notin OwnedBy(T, userId) THEN "false"
  ELSE IF T[cur].parentTaskId = NoId THEN "false"
  ELSE IF T[cur].parentTaskId = potentialChildId THEN "true"
  ELSE IF fuel = 0 THEN "diverges"
  ELSE ancestorWalk(T, T[cur].parentTaskId, potentialChildId, userId, fuel - 1)

isSubtaskOf(T, potentialParentId, potentialChildId, userId) ==
  ancestorWalk(T, potentialParentId, potentialChildId, userId,
               Cardinality(DOMAIN T))

checkAndCompleteParent(T, userId, parentTaskId) ==
  LET subtasks == {i \in OwnedBy(T, userId) : T[i].parentTaskId = parentTaskId}
      allCompleted == subtasks # {} /\ \A i \in subtasks : T[i].status = COMPLETED
  IN IF /\ allCompleted
        /\ parentTaskId \in OwnedBy(T, userId)
        /\ T[parentTaskId].status # COMPLETED
     THEN [T EXCEPT ![parentTaskId] =
             [@ EXCEPT !.status = COMPLETED,
                       !.reminderEnabled =
                          IF T[parentTaskId].type = DURATION THEN FALSE ELSE @]]
     ELSE T

\* completeRecurring with the occurrences test one too low
completeRecurringOffByOne(task) ==
  LET p == task.recurrencePattern
      originalStartTime == task.startDateTime
      ended == [task EXCEPT !.status = COMPLETED, !.reminderEnabled = FALSE]
      advance(t, nextOccurrence) ==
        [t EXCEPT !.startDateTime = nextOccurrence,
                  !.deadline =
                     IF t.deadline # NoDate /\ t.type = DURATION
                     THEN nextOccurrence + (t.deadline - originalStartTime)
                     ELSE @,
                  !.status = PENDING,
                  !.remindersSent = {}]
  IN IF p.occurrences # Absent
     THEN IF p.occurrences < 1 THEN ended
          ELSE LET dec == [task EXCEPT !.recurrencePattern.occurrences = @ - 1]
               IN advance(dec, calculateNextOccurrence(task.startDateTime,
                                                       dec.recurrencePattern))
     ELSE LET nextOccurrence == calculateNextOccurrence(task.startDateTime, p)
          IN IF p.endDate # NoDate /\ nextOccurrence > p.endDate
             THEN ended
             ELSE advance(task, nextOccurrence)

\* the recurring-completion branch of updateTask
completeRecurring(task) ==
  LET p == task.recurrencePattern
      originalStartTime == task.startDateTime
      ended == [task EXCEPT !.status = COMPLETED, !.reminderEnabled = FALSE]
      advance(t, nextOccurrence) ==
        [t EXCEPT !.startDateTime = nextOccurrence,
                  !.deadline =
                     IF t.deadline # NoDate /\ t.type = DURATION
                     THEN nextOccurrence + (t.deadline - originalStartTime)
                     ELSE @,
                  !.status = PENDING,
                  !.remindersSent = {}]
  IN IF p.occurrences # Absent
     THEN IF p.occurrences <= 1 THEN ended
          ELSE LET dec == [task EXCEPT !.recurrencePattern.occurrences = @ - 1]
               IN advance(dec, calculateNextOccurrence(task.startDateTime,
                                                       dec.recurrencePattern))
     ELSE LET nextOccurrence == calculateNextOccurrence(task.startDateTime, p)
          IN IF p.endDate # NoDate /\ nextOccurrence > p.endDate
             THEN ended
             ELSE advance(task, nextOccurrence)


\* ------------------------------------------------------------- createTask
\* The outcome of POST /tasks: the result and the collection it leaves.
createTask(T, id, clock, userId, data) ==
  LET startDateTime == data.startDateTime
      deadline == IF data.deadline # Absent THEN data.deadline ELSE NoDate
      conflictCheck == checkConflicts(T, userId, startDateTime, deadline,
                                      data.type, NoId)
      doc == [userId |-> userId,
              type |-> data.type,
              startDateTime |-> startDateTime,
              deadline |-> IF data.type = REMINDER THEN NoDate ELSE deadline,
              status |-> IF data.status = "undefined" THEN PENDING
                         ELSE data.status,
              reminderEnabled |-> data.reminderEnabled = "true",
              remindersSent |-> {},
              isRecurring |-> data.isRecurring,
              recurrencePattern |-> data.recurrencePattern,
              dependsOn |-> data.dependsOn,
              parentTaskId |-> IF data.parentTaskId > NoId
                               THEN data.parentTaskId ELSE NoId,
              createdAt |-> clock]
      rejected(why) == [result |-> why, tasks |-> T]
  IN IF ~CreateTaskSchema(data, clock) THEN rejected("invalid")
     ELSE IF ~RecurrenceEndValid(data.recurrencePattern) THEN rejected("invalid")
     ELSE IF ~data.overrideConflicts /\ conflictCheck.hasConflict
       THEN rejected("conflict")
     ELSE IF /\ ~data.overrideConflicts
             /\ checkDailyHourLimit(T, userId, startDateTime, deadline,
                                    data.type, NoId)
       THEN rejected("limit")
     ELSE IF /\ Len(data.dependsOn) > 0
             /\ Cardinality(dependenciesFound(T, userId, data.dependsOn))
                  # Len(data.dependsOn)
       THEN rejected("dependency-not-found")
     ELSE IF data.parentTaskId > NoId /\ data.parentTaskId \notin OwnedBy(T, userId)
       THEN rejected("parent-not-found")
     ELSE IF ~PatternSchemaValid(data.isRecurring, data.recurrencePattern)
       THEN rejected("invalid")
     ELSE [result |-> "ok", tasks |-> (id :> doc) @@ T]

\* ------------------------------------------------------------- updateTask
\* The outcome of PUT /tasks/:id: the result and the collection it leaves.
updateTask(T, userId, taskId, data) ==
  LET rejected(why) == [result |-> why, tasks |-> T] IN
  IF ~UpdateTaskSchema(data) THEN rejected("invalid")
  ELSE IF taskId \notin OwnedBy(T, userId) THEN rejected("not-found")
  ELSE
  LET task == T[taskId]
      startDateTime == IF data.startDateTime # Absent THEN data.startDateTime
                       ELSE task.startDateTime
      deadline == IF data.deadline # Absent THEN data.deadline ELSE task.deadline
      checked == (data.startDateTime # Absent \/ data.deadline # Absent)
                 /\ ~data.overrideConflicts
      \* "Update fields", dependencies and parent, as assigned in memory
      assigned ==
        [task EXCEPT
           !.startDateTime = startDateTime,
           !.deadline = deadline,
           !.reminderEnabled = IF data.reminderEnabled # "undefined"
                               THEN data.reminderEnabled = "true" ELSE @,
           !.dependsOn = IF data.hasDependsOn THEN data.dependsOn ELSE @,
           !.parentTaskId = IF data.parentTaskId # Absent
                            THEN data.parentTaskId ELSE @]
      circular == IF data.parentTaskId > NoId
                  THEN isSubtaskOf(T, data.parentTaskId, taskId, userId)
                  ELSE "false"
      \* the status handling at the end of the handler
      settled ==
        IF /\ data.status = COMPLETED
           /\ assigned.isRecurring
           /\ assigned.recurrencePattern # NoPattern
        THEN completeRecurring(assigned)
        ELSE IF data.status # "undefined"
        THEN [assigned EXCEPT
                !.status = data.status,
                !.reminderEnabled = IF data.status = COMPLETED THEN FALSE ELSE @]
        ELSE assigned
      \* pre('save'): a reminder task keeps no deadline
      saved == [settled EXCEPT
                  !.deadline = IF settled.type = REMINDER THEN NoDate ELSE @]
      stored == [T EXCEPT ![taskId] = saved]
  IN IF checked /\ checkConflicts(T, userId, startDateTime, deadline,
                                  task.type, taskId).hasConflict
       THEN rejected("conflict")
     ELSE IF checked /\ checkDailyHourLimit(T, userId, startDateTime, deadline,
                                            task.type, taskId)
       THEN rejected("limit")
     ELSE IF /\ data.hasDependsOn
             /\ Len(data.dependsOn) > 0
             /\ Cardinality(dependenciesFound(T, userId, data.dependsOn))
                  # Len(data.dependsOn)
       THEN rejected("dependency-not-found")
     ELSE IF data.parentTaskId > NoId /\ data.parentTaskId \notin OwnedBy(T, userId)
       THEN rejected("parent-not-found")
     ELSE IF circular = "diverges" THEN rejected("hang")
     ELSE IF circular = "true" THEN rejected("circular")
     ELSE IF data.status = COMPLETED /\ incompleteSubtasks(T, userId, taskId) # {}
       THEN rejected("subtasks-incomplete")
     ELSE IF /\ data.status \in {IN_PROGRESS, COMPLETED}
             /\ Len(assigned.dependsOn) > 0
             /\ incompleteDeps(T, assigned.dependsOn) # {}
       THEN rejected("dependencies-incomplete")
     ELSE [result |-> "ok",
           tasks |-> IF saved.parentTaskId # NoId /\ data.status = COMPLETED
                     THEN checkAndCompleteParent(stored, userId, saved.parentTaskId)
                     ELSE stored]

\* ------------------------------------------------------------- deleteTask
deleteTask(T, userId, taskId) ==
  IF taskId \in OwnedBy(T, userId)
  THEN [result |-> "ok", tasks |-> [i \in DOMAIN T \ {taskId} |-> T[i]]]
  ELSE [result |-> "not-found", tasks |-> T]

\* -------------------------------------------------------- reminder sweep
\* calculateReminderQuarter; -1 stands for null
calculateReminderQuarter(task, currentTime) ==
  LET reference == IF task.type = REMINDER THEN task.startDateTime
                   ELSE task.deadline
      totalDuration == reference - task.createdAt
      timeUntil == reference - currentTime
      \* percentRemaining = (timeUntil / totalDuration) * 100 against 25, 50
      \* and 75, compared exactly and without a product that overflows; a zero
      \* totalDuration gives Infinity, a negative one a negative percentage
      share(pct) == CASE pct = 0 -> 0
                      [] pct = 25 -> totalDuration \div 4
                      [] pct = 50 -> totalDuration \div 2
                      [] pct = 75 -> totalDuration - ((totalDuration + 3) \div 4)
      leq(pct) == IF totalDuration > 0 THEN timeUntil <= share(pct)
                  ELSE totalDuration < 0
      gt(pct) == IF totalDuration > 0 THEN timeUntil > share(pct)
                 ELSE totalDuration = 0
  IN IF timeUntil <= 0 THEN 0
     ELSE IF leq(25) /\ gt(0) THEN 25
     ELSE IF leq(50) /\ gt(25) THEN 50
     ELSE IF leq(75) /\ gt(50) THEN 75
     ELSE IF gt(75) THEN 100
     ELSE -1

getTasksForReminders(T, clock) ==
  {i \in DOMAIN T :
     /\ T[i].reminderEnabled
     /\ \/ T[i].type = REMINDER /\ T[i].startDateTime >= clock
        \/ /\ T[i].type = DURATION
           /\ T[i].status # COMPLETED
           /\ T[i].deadline >= clock}

\* quarterToSend without the look at remindersSent
quarterToSendAgain(T, i, clock) ==
  calculateReminderQuarter(T[i], clock)

\* the quarter processReminders sends for task i, or -1
quarterToSend(T, i, clock) ==
  LET quarter == calculateReminderQuarter(T[i], clock)
  IN IF quarter # -1 /\ quarter \notin T[i].remindersSent THEN quarter ELSE -1

\* processReminders reads the clock, then getTasksForReminders reads it again
processReminders(T, clock, queryClock) ==
  LET eligible == getTasksForReminders(T, queryClock)
      sending == {i \in eligible : quarterToSend(T, i, clock) # -1}
  IN [fired |-> {<<i, quarterToSend(T, i, clock)>> : i \in sending},
      tasks |-> [i \in DOMAIN T |->
                   IF i \in sending
                   THEN [T[i] EXCEPT !.remindersSent =
                                        @ \cup {quarterToSend(T, i, clock)}]
                   ELSE T[i]]]


\* ---------------------------------------------------------------- actions
EmptyStore ==
  /\ tasks = <<>>
  /\ nextId = 1
  /\ now = 0
  /\ last = [op |-> "init", userId |-> "none", id |-> NoId, data |-> NoData,
             result |-> "ok", pre |-> <<>>, snapshot |-> <<>>, now |-> 0,
             fired |-> {}]
  /\ seriesLength = <<>>
  /\ inflight = [c \in Clients |-> Idle]

Init == EmptyStore /\ call = NoCall

CreateTaskReq(userId, data) ==
  LET outcome == createTask(tasks, nextId, now, userId, data) IN
  /\ nextId <= MaxTasks
  /\ tasks' = outcome.tasks
  /\ nextId' = IF outcome.result = "ok" THEN nextId + 1 ELSE nextId
  /\ last' = Request("create", userId, nextId, data, outcome.result, {})
  /\ seriesLength' = IF outcome.result = "ok"
                     THEN (nextId :> data.recurrencePattern.occurrences)
                          @@ seriesLength
                     ELSE seriesLength
  /\ UNCHANGED <<now, call, inflight>>

\* UpdateTaskReq that saves the assigned parent before the later checks
UpdateTaskReqSavingFirst(userId, taskId, data) ==
  LET outcome == updateTask(tasks, userId, taskId, data) IN
  /\ tasks' = IF outcome.result = "ok" \/ taskId \notin OwnedBy(tasks, userId)
              THEN outcome.tasks
              ELSE [tasks EXCEPT ![taskId].parentTaskId =
                                   IF data.parentTaskId # Absent
                                   THEN data.parentTaskId ELSE @]
  /\ last' = Request("update", userId, taskId, data, outcome.result, {})
  /\ UNCHANGED <<nextId, now, seriesLength, call, inflight>>

UpdateTaskReq(userId, taskId, data) ==
  LET outcome == updateTask(tasks, userId, taskId, data) IN
  /\ tasks' = outcome.tasks
  /\ last' = Request("update", userId, taskId, data, outcome.result, {})
  /\ UNCHANGED <<nextId, now, seriesLength, call, inflight>>

DeleteTaskReq(userId, taskId) ==
  LET outcome == deleteTask(tasks, userId, taskId) IN
  /\ tasks' = outcome.tasks
  /\ last' = Request("delete", userId, taskId, NoData, outcome.result, {})
  /\ UNCHANGED <<nextId, now, seriesLength, call, inflight>>

\* the cron job; lag is the time between the two reads of the clock
Sweep(lag) ==
  LET outcome == processReminders(tasks, now, now + lag) IN
  /\ tasks' = outcome.tasks
  /\ last' = Request("sweep", "cron", NoId, NoData, "ok", outcome.fired)
  /\ UNCHANGED <<nextId, now, seriesLength, call, inflight>>

Tick ==
  /\ now < MaxNow * TickMs
  /\ now' = now + TickMs
  /\ UNCHANGED <<tasks, nextId, last, seriesLength, call, inflight>>

\* --------------------------------------------------- the requests made
\* the ids a request names: the stored tasks and one id that names no task
Known == DOMAIN tasks \cup {nextId}

SpanData ==
  [NoData EXCEPT !.type = DURATION, !.startDateTime = 2 * DayMs,
                 !.deadline = 2 * DayMs + HourMs, !.overrideConflicts = TRUE]

CreateOwn == CreateTaskReq("u1", SpanData)

CreatePlain == \E u \in Users : CreateTaskReq(u, SpanData)

CreateSubtask ==
  \E p \in Known : CreateTaskReq("u1", [SpanData EXCEPT !.parentTaskId = p])

CreateDependent ==
  \E d \in Known : CreateTaskReq("u1", [SpanData EXCEPT !.dependsOn = <<d>>])

SetStatus ==
  \E i \in DOMAIN tasks, s \in {PENDING, IN_PROGRESS, COMPLETED} :
    UpdateTaskReq("u1", i, [NoData EXCEPT !.status = s])

Advance ==
  \E i \in DOMAIN tasks, s \in {IN_PROGRESS, COMPLETED} :
    UpdateTaskReq("u1", i, [NoData EXCEPT !.status = s])

SetParent ==
  \E i \in DOMAIN tasks, p \in {NoId} \cup Known :
    UpdateTaskReq("u1", i, [NoData EXCEPT !.parentTaskId = p])

SetDependsOn ==
  \E i \in DOMAIN tasks, d \in Known :
    UpdateTaskReq("u1", i, [NoData EXCEPT !.hasDependsOn = TRUE,
                                          !.dependsOn = <<d>>])

Delete == \E i \in DOMAIN tasks : DeleteTaskReq("u1", i)

\* ----------------------------- subtasks: parents assigned, changed, completed
GraphCreatePlain == nextId <= MaxGraphTasks /\ CreatePlain
GraphCreateSubtask == nextId <= MaxGraphTasks /\ CreateSubtask

Next ==
  GraphCreatePlain \/ GraphCreateSubtask \/ SetStatus \/ SetParent \/ Delete

Spec == Init /\ [][Next]_vars

\* ------------------- chains: subtasks and dependencies fixed at creation
NextChain == CreateOwn \/ CreateSubtask \/ CreateDependent \/ Advance

SpecChain == Init /\ [][NextChain]_vars

\* ------------------------------ dependencies: assigned, changed, deleted
DepsCreatePlain == nextId <= MaxGraphTasks /\ CreatePlain
DepsCreateDependent == nextId <= MaxGraphTasks /\ CreateDependent

NextDeps ==
  DepsCreatePlain \/ DepsCreateDependent \/ SetStatus \/ SetDependsOn \/ Delete

SpecDeps == Init /\ [][NextDeps]_vars

\* ------------- updates that assign fields and then meet a failing check
\* one request carries a new parent or a new span together with a status
Amend ==
  \E i \in DOMAIN tasks :
    \/ \E p \in Known, s \in {IN_PROGRESS, COMPLETED} :
         UpdateTaskReq("u1", i, [NoData EXCEPT !.parentTaskId = p,
                                               !.status = s])
    \/ UpdateTaskReq("u1", i, [NoData EXCEPT !.startDateTime = 2 * DayMs,
                                             !.deadline = 3 * DayMs,
                                             !.status = IN_PROGRESS])

NextReject ==
  GraphCreatePlain \/ GraphCreateSubtask \/ DepsCreateDependent \/ Amend

SpecReject == Init /\ [][NextReject]_vars

\* ------------------------------ recurrence: one series, clock and sweeps
RecurPatterns ==
  { [NoPattern EXCEPT !.frequency = DAILY],
    [NoPattern EXCEPT !.frequency = DAILY, !.occurrences = 1],
    [NoPattern EXCEPT !.frequency = DAILY, !.occurrences = 3],
    [NoPattern EXCEPT !.frequency = DAILY, !.endDate = 2 * DayMs],
    [NoPattern EXCEPT !.frequency = DAILY, !.endDate = 2 * DayMs,
                      !.occurrences = 3],
    [NoPattern EXCEPT !.frequency = WEEKLY, !.daysOfWeek = {1, 5}] }

RecurData(type, pattern) ==
  [NoData EXCEPT !.type = type,
                 !.startDateTime = 12 * HourMs,
                 !.deadline = IF type = DURATION THEN 18 * HourMs ELSE Absent,
                 !.reminderEnabled = "true",
                 !.isRecurring = TRUE,
                 !.recurrencePattern = pattern]

CreateRecurring ==
  /\ nextId <= MaxRecurTasks
  /\ \E type \in {REMINDER, DURATION}, pattern \in RecurPatterns :
       CreateTaskReq("u1", RecurData(type, pattern))

\* completions stop once the series has moved MaxRollDays ahead
Complete ==
  \E i \in DOMAIN tasks :
    /\ tasks[i].startDateTime < MaxRollDays * DayMs
    /\ UpdateTaskReq("u1", i, [NoData EXCEPT !.status = COMPLETED])

Reopen ==
  \E i \in DOMAIN tasks :
    UpdateTaskReq("u1", i, [NoData EXCEPT !.status = PENDING])

EnableReminder ==
  \E i \in DOMAIN tasks :
    UpdateTaskReq("u1", i, [NoData EXCEPT !.reminderEnabled = "true"])

Cron == \E lag \in {0, 1} : Sweep(lag)

NextRecur == CreateRecurring \/ Complete \/ Cron

SpecRecur == Init /\ [][NextRecur]_vars

\* ----------------- one series with the clock, sweeps and other updates
SeriesCreate == nextId <= 1 /\ CreateRecurring

NextSeries ==
  SeriesCreate \/ Complete \/ Reopen \/ EnableReminder \/ Cron \/ Tick

SpecSeries == Init /\ [][NextSeries]_vars

\* ------------------------------ span tasks that fill the hours of a day
LimitStarts == {DayMs, DayMs + 6 * HourMs}
LimitLengths == {12 * HourMs, 18 * HourMs}

LimitData(start, len, override) ==
  [NoData EXCEPT !.type = DURATION,
                 !.startDateTime = start,
                 !.deadline = start + len,
                 !.overrideConflicts = override]

LimitCreate ==
  /\ nextId <= MaxLimitTasks
  /\ \E start \in LimitStarts, len \in LimitLengths, override \in BOOLEAN :
       CreateTaskReq("u1", LimitData(start, len, override))

LimitMove ==
  \E i \in DOMAIN tasks, start \in LimitStarts, len \in LimitLengths,
     override \in BOOLEAN :
    UpdateTaskReq("u1", i, [LimitData(start, len, override)
                             EXCEPT !.type = "undefined"])

LimitComplete ==
  \E i \in DOMAIN tasks :
    UpdateTaskReq("u1", i, [NoData EXCEPT !.status = COMPLETED])

NextLimit == LimitCreate \/ LimitMove \/ LimitComplete

SpecLimit == Init /\ [][NextLimit]_vars

\* ------------------- tasks with reminders, their subtasks and the sweeps
RemindData(type, parent) ==
  [NoData EXCEPT !.type = type,
                 !.startDateTime = 12 * HourMs,
                 !.deadline = IF type = DURATION THEN 18 * HourMs ELSE Absent,
                 !.reminderEnabled = "true",
                 !.parentTaskId = parent,
                 !.overrideConflicts = TRUE]

RemindCreate ==
  /\ nextId <= MaxRemindTasks
  /\ \E type \in {REMINDER, DURATION}, parent \in {Absent} \cup DOMAIN tasks :
       CreateTaskReq("u1", RemindData(type, parent))

NextRemind == RemindCreate \/ Advance \/ Cron

SpecRemind == Init /\ [][NextRemind]_vars

\* ------------------------------------- detectConflict on a pair of tasks
ProbeTimes == 0..MaxProbeTime

ProbeTasks ==
  [type : {REMINDER, DURATION},
   startDateTime : ProbeTimes,
   deadline : {NoDate} \cup ProbeTimes]

InitDetect ==
  /\ EmptyStore
  /\ \E task1 \in ProbeTasks, task2 \in ProbeTasks :
       call = [fn |-> "detectConflict", args |-> <<task1, task2>>, ret |-> <<>>]

DetectConflict ==
  /\ call.fn = "detectConflict"
  /\ call.ret = <<>>
  /\ call' = [call EXCEPT
                !.ret = << detectConflict(call.args[1], call.args[2]),
                           detectConflict(call.args[2], call.args[1]) >>]
  /\ UNCHANGED <<tasks, nextId, now, last, seriesLength, inflight>>

NextDetect == DetectConflict

SpecDetect == InitDetect /\ [][NextDetect]_vars

\* ------------------------ checkConflicts on a candidate and a collection
\* what checkConflicts reads of a stored task: a reminder task has no
\* deadline, a duration task has one after its start
ProbeStored ==
  {t \in [userId : Users, type : {REMINDER, DURATION},
          status : {PENDING, COMPLETED},
          startDateTime : ProbeTimes, deadline : {NoDate} \cup ProbeTimes] :
     IF t.type = REMINDER THEN t.deadline = NoDate
     ELSE t.deadline > t.startDateTime}

ProbeCandidates ==
  {c \in ProbeTasks :
     IF c.type = REMINDER THEN c.deadline = NoDate
     ELSE c.deadline > c.startDateTime}

InitCheck ==
  /\ EmptyStore
  /\ \E n \in 0..2 :
       \E T \in [1..n -> ProbeStored], c \in ProbeCandidates,
          excludeTaskId \in {NoId, 1} :
         call = [fn |-> "checkConflicts",
                 args |-> <<T, "u1", c, excludeTaskId>>, ret |-> <<>>]

CheckConflicts ==
  /\ call.fn = "checkConflicts"
  /\ call.ret = <<>>
  /\ call' = [call EXCEPT
                !.ret = << checkConflicts(call.args[1], call.args[2],
                                          call.args[3].startDateTime,
                                          call.args[3].deadline,
                                          call.args[3].type, call.args[4]) >>]
  /\ UNCHANGED <<tasks, nextId, now, last, seriesLength, inflight>>

NextCheck == CheckConflicts

SpecCheck == InitCheck /\ [][NextCheck]_vars

\* ---------------- the suggestions sent with a conflict, on stored tasks
SlotStarts == {DayMs, 10 * DayMs}
SlotLengths == {DayMs, 8 * DayMs}
SlotDurations == {DayMs, 2 * DayMs}

SlotCreate ==
  /\ nextId <= MaxSlotTasks
  /\ \/ \E start \in SlotStarts, len \in SlotLengths :
          CreateTaskReq("u1", LimitData(start, len, TRUE))
     \/ \E start \in SlotStarts :
          CreateTaskReq("u1", [NoData EXCEPT !.type = REMINDER,
                                            !.startDateTime = start,
                                            !.overrideConflicts = TRUE])

\* a task is moved by giving a new startDateTime alone
SlotMoveStart ==
  \E i \in DOMAIN tasks :
    UpdateTaskReq("u1", i, [NoData EXCEPT !.startDateTime = 5 * DayMs,
                                          !.overrideConflicts = TRUE])

\* a createTask that is refused for a conflict: checkConflicts hands the
\* tasks it found to findFreeTimeSlots and the suggestions go with the error
SlotConflict ==
  \E len \in SlotDurations :
    \E order \in SortedOrders(tasks, ActiveTasks(tasks, "u1", NoId)) :
      /\ createTask(tasks, nextId, now, "u1",
                    LimitData(DayMs, len, FALSE)).result = "conflict"
      /\ call' = [fn |-> "findFreeTimeSlots",
                  args |-> <<busyBlocks(tasks, order), len, DayMs, now>>,
                  ret |-> << findFreeTimeSlots(busyBlocks(tasks, order), len,
                                               DayMs, now) >>]
      /\ last' = Request("create", "u1", nextId, LimitData(DayMs, len, FALSE),
                         "conflict", {})
      /\ UNCHANGED <<tasks, nextId, now, seriesLength, inflight>>

NextSlots == SlotCreate \/ SlotMoveStart \/ SlotConflict

SpecSlots == Init /\ [][NextSlots]_vars

\* ----------------------------- calculateWorkload on some duration tasks
WorkStarts == {0, 6 * HourMs, 18 * HourMs}
WorkLengths == {6 * HourMs, 24 * HourMs, 30 * HourMs}

WorkSpans ==
  {[startDateTime |-> start, deadline |-> start + len] :
     start \in WorkStarts, len \in WorkLengths}

\* the range is the two days from day 0, as getWeeklyWorkload builds a range:
\* from 00:00:00.000 to 23:59:59.999
InitWorkload ==
  /\ EmptyStore
  /\ \E n \in 0..MaxWorkTasks :
       \E spans \in [1..n -> WorkSpans] :
         call = [fn |-> "calculateWorkload",
                 args |-> <<spans, 0, 2 * DayMs - 1>>, ret |-> <<>>]

CalculateWorkload ==
  /\ call.fn = "calculateWorkload"
  /\ call.ret = <<>>
  /\ call' = [call EXCEPT
                !.ret = << calculateWorkload(call.args[1], call.args[2],
                                             call.args[3]) >>]
  /\ UNCHANGED <<tasks, nextId, now, last, seriesLength, inflight>>

NextWorkload == CalculateWorkload

SpecWorkload == InitWorkload /\ [][NextWorkload]_vars

\* ------------------ createTask and updateTask handlers that run interleaved
\* A handler is suspended at each await: after checkConflicts, after
\* checkDailyHourLimit, and it then saves. The requests give both dates.

\* the conflict test with the negation of overrideConflicts left out
conflictDetectedWhenOverridden(T, req) ==
  /\ req.data.overrideConflicts
  /\ checkConflicts(T, req.userId, req.data.startDateTime, req.data.deadline,
                    IF req.op = "create" THEN req.data.type ELSE T[req.id].type,
                    IF req.op = "create" THEN NoId ELSE req.id).hasConflict

\* "if (!data.overrideConflicts)" and "if (conflictCheck.hasConflict)"
conflictDetected(T, req) ==
  /\ ~req.data.overrideConflicts
  /\ checkConflicts(T, req.userId, req.data.startDateTime, req.data.deadline,
                    IF req.op = "create" THEN req.data.type ELSE T[req.id].type,
                    IF req.op = "create" THEN NoId ELSE req.id).hasConflict

\* "if (dailyLimitCheck.exceeds)"
limitExceeded(T, req) ==
  /\ ~req.data.overrideConflicts
  /\ checkDailyHourLimit(T, req.userId, req.data.startDateTime,
                         req.data.deadline,
                         IF req.op = "create" THEN req.data.type
                         ELSE T[req.id].type,
                         IF req.op = "create" THEN NoId ELSE req.id)

\* what the handler does once its two checks have passed
afterChecks(T, id, clock, req) ==
  IF req.op = "create"
  THEN createTask(T, id, clock, req.userId,
                  [req.data EXCEPT !.overrideConflicts = TRUE])
  ELSE updateTask(T, req.userId, req.id,
                  [req.data EXCEPT !.overrideConflicts = TRUE])

\* the handler throws: the response is sent, nothing is stored
Throw(c, req, why) ==
  /\ inflight' = [inflight EXCEPT ![c] = Idle]
  /\ last' = [Request(req.op, req.userId, req.id, req.data, why, {})
                EXCEPT !.snapshot = req.snapshot]
  /\ UNCHANGED <<tasks, nextId, now, seriesLength, call>>

\* a request arrives and its handler runs up to the return of checkConflicts
Arrive(c, req) ==
  /\ inflight[c].pc = "idle"
  /\ IF conflictDetected(tasks, req) THEN Throw(c, req, "conflict")
     ELSE /\ inflight' = [inflight EXCEPT ![c] = [req EXCEPT !.pc = "limit"]]
          /\ UNCHANGED <<tasks, nextId, now, last, seriesLength, call>>

\* creates arrive while the stored tasks and the creates in flight are fewer
\* than MaxRaceTasks
RaceCreate ==
  \E c \in Clients, start \in {DayMs, DayMs + 6 * HourMs, 2 * DayMs} :
    /\ nextId + Cardinality({d \in Clients : inflight[d].op = "create"})
         <= MaxRaceTasks
    /\ Arrive(c, [Idle EXCEPT !.op = "create", !.userId = "u1",
                              !.data = LimitData(start, 12 * HourMs, FALSE),
                              !.snapshot = tasks])

RaceUpdate ==
  \E c \in Clients, i \in DOMAIN tasks, start \in {DayMs, DayMs + 6 * HourMs, 2 * DayMs} :
    Arrive(c, [Idle EXCEPT !.op = "update", !.userId = "u1", !.id = i,
                           !.data = [LimitData(start, 12 * HourMs, FALSE)
                                       EXCEPT !.type = "undefined"],
                           !.snapshot = tasks])

\* the handler resumes with the result of checkDailyHourLimit
RaceLimit ==
  \E c \in Clients :
    /\ inflight[c].pc = "limit"
    /\ IF limitExceeded(tasks, inflight[c]) THEN Throw(c, inflight[c], "limit")
       ELSE /\ inflight' = [inflight EXCEPT ![c].pc = "save"]
            /\ UNCHANGED <<tasks, nextId, now, last, seriesLength, call>>

\* the handler resumes, goes through its other steps and saves the document
RaceSave ==
  \E c \in Clients :
    LET req == inflight[c]
        outcome == afterChecks(tasks, nextId, now, req)
        created == req.op = "create" /\ outcome.result = "ok"
    IN /\ req.pc = "save"
       /\ tasks' = outcome.tasks
       /\ nextId' = IF created THEN nextId + 1 ELSE nextId
       /\ seriesLength' = IF created THEN (nextId :> Absent) @@ seriesLength
                          ELSE seriesLength
       /\ inflight' = [inflight EXCEPT ![c] = Idle]
       /\ last' = [Request(req.op, req.userId,
                           IF req.op = "create" THEN nextId ELSE req.id,
                           req.data, outcome.result, {})
                     EXCEPT !.snapshot = req.snapshot]
       /\ UNCHANGED <<now, call>>

NextRace == RaceCreate \/ RaceUpdate \/ RaceLimit \/ RaceSave

SpecRace == Init /\ [][NextRace]_vars

\* ------------------- calculateDynamicPriority on two tasks at one clock
\* the deadlines lie around each threshold, one millisecond before it and on it
InitPriority ==
  /\ EmptyStore
  /\ \E task1, task2 \in
          [priority : {"low", "medium", "high"},
           status : {PENDING, IN_PROGRESS, COMPLETED},
           deadline : {NoDate} \cup
                      {DayMs + h * HourMs - e : h \in {0, 2, 6, 24, 48, 168},
                                                e \in {0, 1}}] :
       call = [fn |-> "calculateDynamicPriority",
               args |-> <<task1, task2, DayMs>>, ret |-> <<>>]

CalculateDynamicPriority ==
  /\ call.fn = "calculateDynamicPriority"
  /\ call.ret = <<>>
  /\ call' = [call EXCEPT
                !.ret = << calculateDynamicPriority(call.args[1], call.args[3]),
                           calculateDynamicPriority(call.args[2], call.args[3]) >>]
  /\ UNCHANGED <<tasks, nextId, now, last, seriesLength, inflight>>

SpecPriority == InitPriority /\ [][CalculateDynamicPriority]_vars

\* ------------- span tasks, some of them daily series, never with override
RollCreate ==
  /\ nextId <= MaxRollTasks
  /\ \E start \in {DayMs, 2 * DayMs}, isRecurring \in BOOLEAN :
       CreateTaskReq("u1",
         [LimitData(start, 18 * HourMs, FALSE) EXCEPT
            !.isRecurring = isRecurring,
            !.recurrencePattern =
               IF isRecurring THEN [NoPattern EXCEPT !.frequency = DAILY]
               ELSE NoPattern])

NextRoll == RollCreate \/ Complete \/ Reopen \/ Delete

SpecRoll == Init /\ [][NextRoll]_vars

\* ------------- calculateNextOccurrence along a series that has an endDate
\* Dates are day indices (the time of day is kept by setDate, setMonth and
\* setFullYear); the series ends on day MaxOccurDay. The first dates are the
\* days of two weeks and the last days of January.
InitOccur ==
  /\ EmptyStore
  /\ \E first \in (0..13) \cup {28, 29, 30},
        frequency \in {DAILY, WEEKLY, MONTHLY, YEARLY},
        interval \in {1, 2},
        daysOfWeek \in {{}, {1, 5}, {0}, {3, 6}},
        dayOfMonth \in {0, 1, 15, 31} :
       /\ frequency # WEEKLY => daysOfWeek = {}
       /\ frequency # MONTHLY => dayOfMonth = 0
       /\ call = [fn |-> "calculateNextOccurrence",
                  args |-> << first,
                              [NoPattern EXCEPT !.frequency = frequency,
                                                !.interval = interval,
                                                !.daysOfWeek = daysOfWeek,
                                                !.dayOfMonth = dayOfMonth],
                              first, 0 >>,
                  ret |-> <<>>]

\* a completion of the series: the next occurrence of the current date is
\* computed; the current date is the one the last completion moved the task to
CalculateNextOccurrence ==
  LET currentDate == IF call.ret = <<>> THEN call.args[1] ELSE call.ret[1] IN
  /\ call.fn = "calculateNextOccurrence"
  /\ currentDate <= MaxOccurDay
  /\ call' = [call EXCEPT
                !.args = << currentDate, call.args[2], call.args[3],
                            call.args[4] + 1 >>,
                !.ret = << NextOccurrenceDay(currentDate, call.args[2]) >>]
  /\ UNCHANGED <<tasks, nextId, now, last, seriesLength, inflight>>

SpecOccur == InitOccur /\ [][CalculateNextOccurrence]_vars

\* ------------------------------------------ what the claims speak about
\* the last request was an updateTask on a task the caller owns
UpdateOfOwned ==
  /\ last.op = "update"
  /\ last.id \in DOMAIN last.pre
  /\ last.pre[last.id].userId = last.userId

Rejected == last.result # "ok" /\ tasks = last.pre

\* the ids reached from i by one or more parentTaskId steps
RECURSIVE AncestorsWithin(_, _, _)
AncestorsWithin(T, i, steps) ==
  IF steps = 0 \/ i \notin DOMAIN T \/ T[i].parentTaskId = NoId THEN {}
  ELSE {T[i].parentTaskId} \cup AncestorsWithin(T, T[i].parentTaskId, steps - 1)

AncestorsOf(T, i) == AncestorsWithin(T, i, Cardinality(DOMAIN T) + 1)

SubtasksOf(T, p) == {i \in DOMAIN T : T[i].parentTaskId = p}

\* the tasks whose status the last request changed to s
BecameStatus(s) ==
  {i \in DOMAIN tasks \cap DOMAIN last.pre :
     last.pre[i].status # s /\ tasks[i].status = s}

\* C2: an updateTask that assigns parentTaskId = P to T is rejected when T is P
\* or T is among P's ancestors, and no task is ever its own ancestor.
C2_CyclesRejected ==
  /\ ( /\ UpdateOfOwned
       /\ last.data.parentTaskId > NoId
       /\ \/ last.data.parentTaskId = last.id
          \/ last.id \in AncestorsOf(last.pre, last.data.parentTaskId) )
     => Rejected
  /\ \A i \in DOMAIN tasks : i \notin AncestorsOf(tasks, i)

\* C5: when a subtask has become Completed and all subtasks of its parent are
\* Completed, the parent is Completed too (with reminders off if it is a
\* duration task), also when the subtask was itself completed as a parent.
C5_ParentAutoCompleted ==
  \A i \in BecameStatus(COMPLETED) :
    LET p == tasks[i].parentTaskId IN
    ( /\ p \in DOMAIN tasks
      /\ \A j \in SubtasksOf(tasks, p) : tasks[j].status = COMPLETED )
    => /\ tasks[p].status = COMPLETED
       /\ tasks[p].type = DURATION => ~tasks[p].reminderEnabled

\* C6: an updateTask that sets status Completed on a task with a subtask that
\* is not Completed is rejected and leaves the task's status as it was.
C6_SubtaskGate ==
  ( /\ UpdateOfOwned
    /\ last.data.status = COMPLETED
    /\ \E j \in SubtasksOf(last.pre, last.id) : last.pre[j].status # COMPLETED )
  => /\ last.result # "ok"
     /\ last.id \in DOMAIN tasks
     /\ tasks[last.id].status = last.pre[last.id].status

\* a completion was refused because of a pending or in-progress subtask
C6_Witness ==
  /\ UpdateOfOwned
  /\ last.data.status = COMPLETED
  /\ \E j \in SubtasksOf(last.pre, last.id) :
       j # last.id /\ last.pre[j].status = IN_PROGRESS
  /\ last.result = "subtasks-incomplete"
  /\ tasks = last.pre


\* C3: no task becomes InProgress or Completed, by an updateTask or by the
\* automatic completion of a parent, while a task it depends on is not
\* Completed; an updateTask that attempts it is rejected.
C3_BlockedByDependencies ==
  /\ \A i \in BecameStatus(IN_PROGRESS) \cup BecameStatus(COMPLETED) :
       \A d \in Range(tasks[i].dependsOn) \cap DOMAIN last.pre :
         last.pre[d].status = COMPLETED
  /\ ( /\ UpdateOfOwned
       /\ last.data.status \in {IN_PROGRESS, COMPLETED}
       /\ \E d \in Range(tasks[last.id].dependsOn) \cap DOMAIN last.pre :
            last.pre[d].status # COMPLETED )
     => Rejected

\* C4: every dependsOn holds only ids of stored tasks of the same user and
\* never the task's own id; a create or update naming another id is rejected.
C4_DependenciesValid ==
  /\ \A i \in DOMAIN tasks :
       \A d \in Range(tasks[i].dependsOn) :
         d # i /\ d \in DOMAIN tasks /\ tasks[d].userId = tasks[i].userId
  /\ ( /\ last.op = "create" \/ (last.op = "update" /\ last.data.hasDependsOn)
       /\ \E d \in Range(last.data.dependsOn) :
            d \notin OwnedBy(last.pre, last.userId) )
     => Rejected


\* C1: a createTask or updateTask whose span candidate would bring the span
\* hours of some day above 24 is rejected and stores nothing, with or without
\* overrideConflicts.
C1_HourLimitHard ==
  /\ ( /\ last.op = "create"
       /\ last.data.type = DURATION
       /\ checkDailyHourLimit(last.pre, last.userId, last.data.startDateTime,
                              last.data.deadline, DURATION, NoId) )
     => Rejected
  /\ ( /\ UpdateOfOwned
       /\ last.pre[last.id].type = DURATION
       /\ last.data.startDateTime # Absent
       /\ last.data.deadline # Absent
       /\ checkDailyHourLimit(last.pre, last.userId, last.data.startDateTime,
                              last.data.deadline, DURATION, last.id) )
     => Rejected

\* the last request was an accepted completion of a recurring task
CompletedRecurring ==
  /\ UpdateOfOwned
  /\ last.result = "ok"
  /\ last.data.status = COMPLETED
  /\ last.pre[last.id].isRecurring

\* the completion ended the series and left its dates where they were
EndedInPlace ==
  /\ tasks[last.id].status = COMPLETED
  /\ ~tasks[last.id].reminderEnabled
  /\ tasks[last.id].startDateTime = last.pre[last.id].startDateTime
  /\ tasks[last.id].deadline = last.pre[last.id].deadline

\* the completions a daily series created on day 0 has had before this one
EarlierCompletions == DayOf(last.pre[last.id].startDateTime)

\* the completion is one that ends the series
LastOfSeries ==
  LET before == last.pre[last.id]
      p == before.recurrencePattern
  IN \/ p.occurrences # Absent /\ p.occurrences <= 1
     \/ /\ p.occurrences = Absent
        /\ p.endDate # NoDate
        /\ calculateNextOccurrence(before.startDateTime, p) > p.endDate

C8_TerminationPermanent ==
  \A i \in DOMAIN last.pre :
    ( /\ last.pre[i].isRecurring
      /\ last.pre[i].status = COMPLETED
      /\ ~last.pre[i].reminderEnabled )
    => /\ i \in DOMAIN tasks
       /\ tasks[i].status = COMPLETED
       /\ ~tasks[i].reminderEnabled

\* C9: a completion that does not end the series moves start to the next
\* occurrence, keeps the length of a span task, sets status Pending and empties
\* remindersSent; a daily series with interval 1 moves by exactly one day.
C9_SeriesAdvances ==
  (CompletedRecurring /\ ~LastOfSeries) =>
    LET before == last.pre[last.id]
        after == tasks[last.id]
        p == before.recurrencePattern
    IN /\ after.startDateTime = calculateNextOccurrence(before.startDateTime, p)
       /\ before.type = DURATION =>
            after.deadline - after.startDateTime
              = before.deadline - before.startDateTime
       /\ after.status = PENDING
       /\ after.remindersSent = {}
       /\ (p.frequency = DAILY /\ p.interval = 1) =>
            after.startDateTime = before.startDateTime + DayMs
       /\ (p.frequency = WEEKLY /\ DayOf(before.startDateTime) = 0) =>
            after.startDateTime = before.startDateTime + 2 * DayMs

\* a span task of an endless daily series moved on after a reminder was sent
C9_Witness ==
  /\ CompletedRecurring
  /\ ~LastOfSeries
  /\ last.pre[last.id].type = DURATION
  /\ last.pre[last.id].recurrencePattern.endDate = NoDate
  /\ last.pre[last.id].recurrencePattern.occurrences = Absent
  /\ last.pre[last.id].recurrencePattern.frequency = DAILY
  /\ last.pre[last.id].remindersSent # {}
  /\ tasks[last.id].startDateTime = last.pre[last.id].startDateTime + DayMs
  /\ tasks[last.id].remindersSent = {}

\* more than three quarters of the time from creation to the reference time
\* remain at the clock reading
MoreThanThreeQuartersLeft(task, clock) ==
  LET reference == IF task.type = REMINDER THEN task.startDateTime
                   ELSE task.deadline
      total == reference - task.createdAt
      left == reference - clock
  IN total > 0 /\ left > total - ((total + 3) \div 4)

\* C10: a sweep sends nothing for a task with more than 75% of its time left,
\* what it sends is one of 0, 25, 50 and 75, and remindersSent holds no other
\* value.
C10_Quarters ==
  /\ \A i \in DOMAIN tasks : tasks[i].remindersSent \subseteq {0, 25, 50, 75}
  /\ last.op = "sweep" =>
       \A f \in last.fired :
         /\ f[2] \in {0, 25, 50, 75}
         /\ ~MoreThanThreeQuartersLeft(last.pre[f[1]], last.now)

\* the time a task's reminders count down to
ReferenceTime(task) ==
  IF task.type = REMINDER THEN task.startDateTime ELSE task.deadline

\* C11: a sweep that runs when the reference time of a task with reminders on
\* and not Completed has been reached or passed sends its quarter-0 reminder,
\* unless that was sent before, and then it does not send it again.
C11_AtTimeReminder ==
  last.op = "sweep" =>
    \A i \in DOMAIN last.pre :
      ( /\ last.pre[i].reminderEnabled
        /\ last.pre[i].status # COMPLETED
        /\ ReferenceTime(last.pre[i]) <= last.now )
      => ( <<i, 0>> \in last.fired <=> 0 \notin last.pre[i].remindersSent )

\* C12: a sweep sends a task at most one quarter and never one that is in its
\* remindersSent; remindersSent only grows, except that a recurring completion
\* that moves the task on empties it.
C12_QuartersOnce ==
  /\ last.op = "sweep" =>
       \A f \in last.fired, g \in last.fired :
         /\ f[2] \notin last.pre[f[1]].remindersSent
         /\ f[1] = g[1] => f = g
  /\ \A i \in DOMAIN last.pre \cap DOMAIN tasks :
       \/ last.pre[i].remindersSent \subseteq tasks[i].remindersSent
       \/ /\ CompletedRecurring
          /\ last.id = i
          /\ ~LastOfSeries
          /\ tasks[i].remindersSent = {}

\* a sweep found the due quarter of an eligible task sent already
C12_Witness ==
  /\ last.op = "sweep"
  /\ last.fired = {}
  /\ \E i \in getTasksForReminders(last.pre, last.now) :
       /\ last.pre[i].remindersSent # {}
       /\ calculateReminderQuarter(last.pre[i], last.now)
            \in last.pre[i].remindersSent
  /\ tasks = last.pre

\* C13: a sweep sends nothing for a task that is Completed when it starts.
C13_NoneForCompleted ==
  last.op = "sweep" =>
    \A f \in last.fired : last.pre[f[1]].status # COMPLETED

\* detectConflict has returned for a pair of tasks, in both orders
Detected == call.fn = "detectConflict" /\ call.ret # <<>>

\* C14: detectConflict(A, B) = detectConflict(B, A) for every pair of tasks.
C14_ConflictSymmetric ==
  Detected => call.ret[1] = call.ret[2]

\* a reminder task at the start of a duration task, found in both orders
C14_Witness ==
  /\ Detected
  /\ call.args[1].type = REMINDER
  /\ call.args[2].type = DURATION
  /\ call.args[2].deadline > call.args[2].startDateTime
  /\ call.args[1].startDateTime = call.args[2].startDateTime
  /\ call.ret = <<TRUE, TRUE>>

\* a duration task whose deadline is given
HasSpan(task) == task.type = DURATION /\ task.deadline # NoDate

\* C15: two reminder tasks conflict iff their starts are equal; a reminder and
\* a duration task iff the start lies in [start, deadline]; two duration tasks
\* iff s1 < e2 and e1 > s2, so tasks that only touch do not conflict.
C15_ConflictRules ==
  Detected =>
    LET a == call.args[1]
        b == call.args[2]
    IN /\ (a.type = REMINDER /\ b.type = REMINDER) =>
            (call.ret[1] <=> a.startDateTime = b.startDateTime)
       /\ (a.type = REMINDER /\ HasSpan(b)) =>
            (call.ret[1] <=> a.startDateTime \in b.startDateTime..b.deadline)
       /\ (HasSpan(a) /\ b.type = REMINDER) =>
            (call.ret[1] <=> b.startDateTime \in a.startDateTime..a.deadline)
       /\ (HasSpan(a) /\ HasSpan(b)) =>
            /\ call.ret[1] <=>
                 (a.startDateTime < b.deadline /\ a.deadline > b.startDateTime)
            /\ a.deadline = b.startDateTime /\ a.startDateTime < a.deadline
                 => ~call.ret[1]

\* two duration tasks that touch at one endpoint were found not to conflict
C15_Witness ==
  /\ Detected
  /\ HasSpan(call.args[1])
  /\ HasSpan(call.args[2])
  /\ call.args[1].startDateTime < call.args[1].deadline
  /\ call.args[1].deadline = call.args[2].startDateTime
  /\ call.args[2].startDateTime < call.args[2].deadline
  /\ call.ret = <<FALSE, FALSE>>

\* the conflict rules between a candidate and a stored task
Overlaps(c, t) ==
  CASE c.type = REMINDER /\ t.type = REMINDER ->
         c.startDateTime = t.startDateTime
    [] c.type = REMINDER /\ t.type = DURATION ->
         c.startDateTime \in t.startDateTime..t.deadline
    [] c.type = DURATION /\ t.type = REMINDER ->
         t.startDateTime \in c.startDateTime..c.deadline
    [] c.type = DURATION /\ t.type = DURATION ->
         c.startDateTime < t.deadline /\ c.deadline > t.startDateTime

\* the stored tasks a candidate is to be compared with
Compared(T, userId, excludeTaskId) ==
  {i \in DOMAIN T :
     /\ T[i].userId = userId
     /\ i # excludeTaskId
     /\ ~(T[i].type = DURATION /\ T[i].status = COMPLETED)}

\* C16: checkConflicts reports a conflict iff one of the owner's tasks, other
\* than excludeTaskId and than completed duration tasks, conflicts with the
\* candidate; it then returns one soft entry listing exactly those tasks, and
\* no entry otherwise.
C16_CheckConflicts ==
  (call.fn = "checkConflicts" /\ call.ret # <<>>) =>
    LET T == call.args[1]
        hits == {i \in Compared(T, call.args[2], call.args[4]) :
                   Overlaps(call.args[3], T[i])}
        response == call.ret[1]
    IN /\ response.hasConflict <=> hits # {}
       /\ hits # {} => /\ Len(response.conflicts) = 1
                       /\ response.conflicts[1].conflictsWith = hits
                       /\ response.conflicts[1].severity = "soft"
       /\ hits = {} => response.conflicts = <<>>

\* a candidate over a completed and a pending duration task: only the pending
\* one is listed
C16_Witness ==
  /\ call.fn = "checkConflicts"
  /\ call.ret # <<>>
  /\ DOMAIN call.args[1] = {1, 2}
  /\ call.args[4] = NoId
  /\ call.args[3].type = DURATION
  /\ \A i \in {1, 2} :
       /\ call.args[1][i].userId = "u1"
       /\ call.args[1][i].type = DURATION
       /\ Overlaps(call.args[3], call.args[1][i])
  /\ call.args[1][1].status = COMPLETED
  /\ call.args[1][2].status = PENDING
  /\ call.ret[1].conflicts = << [conflictsWith |-> {2}, severity |-> "soft"] >>

\* findFreeTimeSlots has returned its suggestions
Suggested == call.fn = "findFreeTimeSlots" /\ call.ret # <<>>

\* C17: every suggestion of findFreeTimeSlots starts and ends within the seven
\* days that begin at max(originalStart, now).
C17_WithinHorizon ==
  Suggested =>
    LET anchor == Max(call.args[3], call.args[4])
        suggestions == call.ret[1]
    IN \A k \in DOMAIN suggestions :
         /\ suggestions[k].startDateTime >= anchor
         /\ suggestions[k].deadline <= anchor + 7 * DayMs

\* C18: findFreeTimeSlots returns at most three suggestions, each as long as
\* the duration asked for, with strictly increasing starts.
C18_SuggestionsOrdered ==
  Suggested =>
    LET suggestions == call.ret[1]
    IN /\ Len(suggestions) <= 3
       /\ \A k \in DOMAIN suggestions :
            suggestions[k].deadline - suggestions[k].startDateTime
              = call.args[2]
       /\ \A k, l \in DOMAIN suggestions :
            k < l => suggestions[k].startDateTime < suggestions[l].startDateTime

\* calculateWorkload has returned
Calculated == call.fn = "calculateWorkload" /\ call.ret # <<>>

RECURSIVE SumOver(_, _)
SumOver(f, ds) ==
  IF ds = {} THEN 0
  ELSE LET d == CHOOSE x \in ds : TRUE IN f[d] + SumOver(f, ds \ {d})

\* C19: the per-day fragments of a duration task that lies inside the range
\* sum to deadline minus start.
C19_FragmentsConserved ==
  Calculated =>
    \A k \in DOMAIN call.ret[1].fragments :
      ( /\ call.args[1][k].startDateTime >= call.args[2]
        /\ call.args[1][k].deadline <= call.args[3] )
      => SumOver(call.ret[1].fragments[k], DOMAIN call.ret[1].fragments[k])
           = call.args[1][k].deadline - call.args[1][k].startDateTime

\* C20: no day calculateWorkload returns, appended days included, has more
\* than 24 hours.
C20_DailyCap ==
  Calculated =>
    \A k \in DOMAIN call.ret[1].dailyWorkloads :
      call.ret[1].dailyWorkloads[k].totalHours <= 24 * HourMs

\* three tasks over the same day: the two days of the range and two appended
\* days are returned, the last day of the range and an appended one full
C20_Witness ==
  /\ Calculated
  /\ Len(call.ret[1].dailyWorkloads) >= 4
  /\ call.ret[1].dailyWorkloads[2].totalHours = 24 * HourMs
  /\ call.ret[1].dailyWorkloads[3].totalHours = 24 * HourMs
  /\ call.ret[1].dailyWorkloads[4].totalHours > 0

\* C21: every stored duration task has a deadline after its start and every
\* stored reminder task has no deadline.
C21_KindInvariant ==
  \A i \in DOMAIN tasks :
    IF tasks[i].type = DURATION
    THEN tasks[i].deadline # NoDate /\ tasks[i].deadline > tasks[i].startDateTime
    ELSE tasks[i].deadline = NoDate

\* the last request was accepted without overrideConflicts after the handler
\* had checked its candidate for conflicts
CheckedAndSaved ==
  /\ last.op \in {"create", "update"}
  /\ last.result = "ok"
  /\ ~last.data.overrideConflicts
  /\ last.data.startDateTime # Absent
  /\ last.data.deadline # Absent

\* what the last request asked the calendar to hold
Candidate ==
  [type |-> IF last.op = "create" THEN last.data.type
            ELSE last.pre[last.id].type,
   startDateTime |-> last.data.startDateTime,
   deadline |-> last.data.deadline]

\* C22: a request without overrideConflicts whose handler ran with no change
\* of the collection between its conflict check and its save is accepted only
\* if its candidate conflicts with no active task of the owner; handlers that
\* run interleaved can both save and leave two conflicting active tasks.
C22_SerializedSafe ==
  (CheckedAndSaved /\ last.snapshot = last.pre) =>
    \A i \in Compared(last.pre, last.userId,
                      IF last.op = "create" THEN NoId ELSE last.id) :
      ~Overlaps(Candidate, last.pre[i])

\* a create was accepted although the task of another create, saved between
\* its conflict check and its save, conflicts with its candidate
C22_Witness ==
  /\ CheckedAndSaved
  /\ last.op = "create"
  /\ \E j \in DOMAIN last.pre \ DOMAIN last.snapshot :
       /\ j \in ActiveTasks(tasks, "u1", NoId)
       /\ last.id \in ActiveTasks(tasks, "u1", NoId)
       /\ Overlaps(tasks[last.id], tasks[j])

\* the points a deadline adds to the score at the clock reading
DeadlineBonus(deadline, clock) ==
  CASE deadline = NoDate -> 0
    [] deadline # NoDate /\ deadline < clock -> 100
    [] deadline >= clock /\ deadline - clock < 2 * HourMs -> 50
    [] deadline - clock >= 2 * HourMs /\ deadline - clock < 6 * HourMs -> 30
    [] deadline - clock >= 6 * HourMs /\ deadline - clock < 24 * HourMs -> 20
    [] deadline - clock >= 24 * HourMs /\ deadline - clock < 48 * HourMs -> 10
    [] deadline - clock >= 48 * HourMs /\ deadline - clock < 168 * HourMs -> 5
    [] deadline - clock >= 168 * HourMs -> 0

ExpectedScore(task, clock) ==
  IF task.status = COMPLETED THEN -1000
  ELSE 10 * (IF task.priority = "low" THEN 1
             ELSE IF task.priority = "medium" THEN 2 ELSE 3)
       + DeadlineBonus(task.deadline, clock)
       + (IF task.status = IN_PROGRESS THEN 15 ELSE 0)

\* C23: the score is ten times the base score plus the deadline bonus plus 15
\* for a task in progress, and -1000 for a completed task; at one clock reading
\* a completed task scores below every task that is not completed.
C23_PriorityScore ==
  (call.fn = "calculateDynamicPriority" /\ call.ret # <<>>) =>
    /\ call.ret[1] = ExpectedScore(call.args[1], call.args[3])
    /\ call.ret[2] = ExpectedScore(call.args[2], call.args[3])
    /\ ( /\ call.args[1].status = COMPLETED
         /\ call.args[2].status # COMPLETED ) => call.ret[1] < call.ret[2]

\* a completed overdue task of high priority against a pending task of low
\* priority without a deadline
C23_Witness ==
  /\ call.fn = "calculateDynamicPriority"
  /\ call.args[1] = [priority |-> "high", status |-> COMPLETED,
                     deadline |-> DayMs - 1]
  /\ call.args[2] = [priority |-> "low", status |-> PENDING,
                     deadline |-> NoDate]
  /\ call.ret = <<-1000, 10>>

\* the time of day d that the stored duration tasks of the user cover, summed
RECURSIVE SpanHoursOn(_, _, _)
SpanHoursOn(userId, ids, d) ==
  IF ids = {} THEN 0
  ELSE LET i == CHOOSE x \in ids : TRUE
           from == Max(tasks[i].startDateTime, d * DayMs)
           to == Min(tasks[i].deadline, (d + 1) * DayMs)
       IN (IF tasks[i].userId = userId /\ tasks[i].type = DURATION /\ to > from
           THEN to - from ELSE 0)
          + SpanHoursOn(userId, ids \ {i}, d)

\* C24: when no request sets overrideConflicts, no day of a user carries more
\* than 24 hours of duration tasks.
C24_DayWithinLimit ==
  \A d \in 0..(MaxRollDays + 2) :
    SpanHoursOn("u1", DOMAIN tasks, d) <= 24 * HourMs

\* C25: the ancestor walk of isSubtaskOf returns for every request that
\* assigns a parent, in every state createTask and updateTask lead to.
C25_WalkTerminates ==
  ( /\ last.op = "update"
    /\ last.data.parentTaskId > NoId
    /\ last.data.parentTaskId \in OwnedBy(last.pre, last.userId) )
  => isSubtaskOf(last.pre, last.data.parentTaskId, last.id, last.userId)
       # "diverges"

\* C26: a suggestion of findFreeTimeSlots, taken as a duration task, conflicts
\* with none of the stored tasks the suggestions were computed from, reminder
\* tasks included.
C26_SuggestionsFree ==
  (Suggested /\ last.result = "conflict") =>
    \A k \in DOMAIN call.ret[1] :
      \A i \in Compared(last.pre, last.userId, NoId) :
        ~Overlaps([type |-> DURATION,
                   startDateTime |-> call.ret[1][k].startDateTime,
                   deadline |-> call.ret[1][k].deadline],
                  last.pre[i])

\* calculateNextOccurrence has returned the next date of a series
Recurred == call.fn = "calculateNextOccurrence" /\ call.ret # <<>>

\* C27: for a weekly pattern with days of the week, the date returned falls on
\* one of these days, whatever the current date and the interval.
C27_OnChosenWeekday ==
  ( /\ Recurred
    /\ call.args[2].frequency = WEEKLY
    /\ call.args[2].daysOfWeek # {} )
  => getDay(call.ret[1]) \in call.args[2].daysOfWeek

\* C29: the date returned is later than the current date for every frequency,
\* so the k-th completion of a series finds it at least k - 1 days after its
\* first date and a series with an end date is completed finitely often.
C29_StrictlyLater ==
  Recurred =>
    /\ call.ret[1] > call.args[1]
    /\ call.args[4] - 1 <= call.args[1] - call.args[3]

\* a monthly series from the last day of January ended on its second
\* completion: the first one took it into March
C29_Witness ==
  /\ Recurred
  /\ call.args[2].frequency = MONTHLY
  /\ call.args[2].dayOfMonth = 0
  /\ call.args[3] = 30
  /\ call.args[4] = 2
  /\ call.args[1] > 30
  /\ call.ret[1] > MaxOccurDay

\* the hours of task k in the tasks list of one day
RECURSIVE HoursInDay(_, _)
HoursInDay(dayTasks, k) ==
  IF dayTasks = <<>> THEN 0
  ELSE (IF Head(dayTasks).id = k THEN Head(dayTasks).hours ELSE 0)
       + HoursInDay(Tail(dayTasks), k)

\* the hours of task k over the tasks lists of all days
RECURSIVE HoursInDays(_, _)
HoursInDays(days, k) ==
  IF days = <<>> THEN 0
  ELSE HoursInDay(Head(days), k) + HoursInDays(Tail(days), k)

\* C28: for every task, its hours over the tasks lists of all days returned,
\* appended days included, sum to its fragments on the days of the range.
C28_HoursConserved ==
  Calculated =>
    \A k \in DOMAIN call.ret[1].fragments :
      HoursInDays(call.ret[1].tasks, k)
        = SumOver(call.ret[1].fragments[k],
                  DOMAIN call.ret[1].fragments[k]
                    \cap (DayOf(call.args[2])..DayOf(call.args[3])))

\* the reasons for which createTask and updateTask reject a request
RejectReasons ==
  {"conflict", "limit", "dependency-not-found", "parent-not-found",
   "circular", "subtasks-incomplete", "dependencies-incomplete"}

\* C30: a createTask or updateTask rejected for a conflict, the hour limit, a
\* missing dependency or parent, a circular parent, incomplete subtasks or
\* incomplete dependencies leaves every stored task as it was, the fields the
\* request assigned before the failing check included
C30_RejectedUnchanged ==
  (last.op \in {"create", "update"} /\ last.result \in RejectReasons)
    => tasks = last.pre

\* an update assigned a parent the task did not have and was then rejected by
\* a later check; the stored task kept its parent
C30_Witness ==
  /\ UpdateOfOwned
  /\ last.result \in {"subtasks-incomplete", "dependencies-incomplete"}
  /\ last.data.parentTaskId # Absent
  /\ last.data.parentTaskId # last.pre[last.id].parentTaskId
  /\ tasks[last.id].parentTaskId = last.pre[last.id].parentTaskId

====
